---- MODULE Spec2Model ----
(***************************************************************************)
(* FinAgent-Pro: the server actions analyzeFinancialDataAction and          *)
(* healthCheck (src/src/app/actions.ts), the dashboard's history handling   *)
(* and sidebar (src/src/app/page.tsx), the error log of QaErrorBoundary     *)
(* (src/unnamed/part_005) and postMessageDedup of HoverReceiver             *)
(* (src/unnamed/part_006), as a state machine.                              *)
(*                                                                          *)
(* Strings are run-length encoded.  A completion text is a                  *)
(* sequence of lexical tokens (prose, whitespace, the <data> and </data>    *)
(* tags, code-fence markers, a JSON document, unparsable text).  JavaScript *)
(* values are tagged records, so that typeof, truthiness and `in` can be    *)
(* computed on them.                                                        *)
(***************************************************************************)
EXTENDS Integers, Sequences, FiniteSets, TLC

VARIABLES
    apiKey,          \* process.env.GEMINI_API_KEY
    now,             \* Date.now(), in ms
    pc,              \* position of the analyzeFinancialDataAction invocation
    rawPrompt,       \* the string the invocation received
    sentPrompt,      \* validation.data.prompt handed to generateContent
    calls,           \* outbound generateContent requests of the invocation
    upstream,        \* what the completion endpoint answered
    outcome,         \* how the invocation ended: an envelope returned, or a throw
    request,         \* requestId and timestamp of the invocation
    mountedRef,      \* mountedRef.current of the dashboard
    loading,         \* dashboard state `loading`
    error,           \* dashboard state `error`
    currentAnalysis, \* dashboard state `currentAnalysis`
    history,         \* useLocalStorage: storedValue
    storage,         \* window.localStorage[STORAGE_KEY]
    query,           \* dashboard state `query`, the input box
    effectsRun,      \* the mount effects of the dashboard have run
    activeQuery,     \* handleSearch: the query of the pending submission
    appended,        \* every item handed to setHistory by handleSearch, oldest first
    renderError,     \* rendering the dashboard threw; the error page replaced it
    sidebarSearch,   \* dashboard state `sidebarSearch`, the sidebar's input box
    debouncedSearch, \* useDebouncedValue(sidebarSearch, DEBOUNCE_DELAY)
    inFlight,        \* analyzeFinancialDataAction calls of the dashboard not yet settled
    debounceTimer,   \* useDebouncedValue: the pending setTimeout, if any
    health,          \* what the last healthCheck() returned
    qaErrors,        \* QaErrorBoundary state `qaErrors`, newest first
    qaMountedRef,    \* mountedRef.current of QaErrorBoundary
    qaIncoming,      \* the error last handed to trackQaError
    orchidsLastMsg,  \* _orchidsLastMsg, the cache of postMessageDedup
    posted,          \* the messages handed to window.parent.postMessage, oldest first
    isVisualEditMode, \* HoverReceiver state.isVisualEditMode
    hoverMounted,    \* HoverReceiver is mounted and its effects have run
    visualEditStored \* window.localStorage[VISUAL_EDIT_MODE_KEY]

serverVars == <<pc, rawPrompt, sentPrompt, calls, upstream, outcome, request>>
dashVars == <<mountedRef, loading, error, currentAnalysis, history, storage,
              query, effectsRun, activeQuery, appended>>
viewVars == <<renderError, sidebarSearch, debouncedSearch, inFlight, debounceTimer>>
qaVars == <<qaErrors, qaMountedRef, qaIncoming>>
orchidsVars == <<orchidsLastMsg, posted, isVisualEditMode, hoverMounted,
                 visualEditStored>>
sideVars == <<health, qaVars, orchidsVars>>
vars == <<apiKey, now, serverVars, dashVars, viewVars, sideVars>>

(***************************************************************************)
(* Bounds of the model.                                                     *)
(***************************************************************************)
MaxPad == 1          \* whitespace characters on each side of a prompt
MaxTime == 1         \* the clock runs from 0 to MaxTime
MaxItems == 2        \* items of an embedded chart payload
MaxAppends == 60     \* successful submissions of one session
MaxSubmits == 2      \* successful submissions between two loads of the page
MaxPosted == 4       \* messages posted to the parent window

(***************************************************************************)
(* JavaScript values.                                                       *)
(***************************************************************************)
Undefined == [t |-> "undefined"]
Null == [t |-> "null"]
JStr(s) == [t |-> "string", s |-> s]
JNum(n) == [t |-> "number", n |-> n]
JInf == [t |-> "number", inf |-> TRUE]        \* JSON.parse("1e999") is Infinity
JArr(a) == [t |-> "array", a |-> a]
JObj(o) == [t |-> "object", o |-> o]

\* !v
Falsy(v) ==
    \/ v.t \in {"undefined", "null"}
    \/ v.t = "string" /\ v.s = ""
    \/ v.t = "number" /\ "n" \in DOMAIN v /\ v.n = 0

IsFiniteNumber(v) == v.t = "number" /\ "n" \in DOMAIN v

(***************************************************************************)
(* Strings, run-length encoded: a sequence of runs [c, n] of n >= 1 copies  *)
(* of the character c, adjacent runs holding different characters.          *)
(***************************************************************************)
Run(c, n) == IF n = 0 THEN <<>> ELSE <<[c |-> c, n |-> n]>>

\* s1 + s2
StrCat(s1, s2) ==
    IF s1 = <<>> THEN s2
    ELSE IF s2 = <<>> THEN s1
    ELSE IF s1[Len(s1)].c = s2[1].c
    THEN SubSeq(s1, 1, Len(s1) - 1)
         \o <<[c |-> s2[1].c, n |-> s1[Len(s1)].n + s2[1].n]>>
         \o Tail(s2)
    ELSE s1 \o s2

\* s.length
RECURSIVE StrLen(_)
StrLen(s) == IF s = <<>> THEN 0 ELSE s[1].n + StrLen(Tail(s))

IsWs(c) == c = " "

\* String.prototype.trim
Trim(s) ==
    LET idx == {i \in 1..Len(s) : ~IsWs(s[i].c)}
    IN  IF idx = {} THEN <<>>
        ELSE LET lo == CHOOSE i \in idx : \A j \in idx : i <= j
                 hi == CHOOSE i \in idx : \A j \in idx : i >= j
             IN  SubSeq(s, lo, hi)

\* Array.prototype.join on a list of messages
RECURSIVE Join(_, _)
Join(msgs, sep) ==
    IF msgs = <<>> THEN <<>>
    ELSE IF Len(msgs) = 1 THEN <<msgs[1]>>
    ELSE <<msgs[1], sep>> \o Join(Tail(msgs), sep)

\* the characters of s, one by one
RECURSIVE Expand(_)
Expand(s) ==
    IF s = <<>> THEN <<>>
    ELSE [i \in 1..s[1].n |-> s[1].c] \o Expand(Tail(s))

\* the string made of the characters chars
RECURSIVE FromChars(_)
FromChars(chars) ==
    IF chars = <<>> THEN <<>>
    ELSE StrCat(Run(chars[1], 1), FromChars(Tail(chars)))

LowerOf(c) == CASE c = "A" -> "a" [] c = "N" -> "n" [] OTHER -> c

\* String.prototype.toLowerCase
RECURSIVE ToLowerCase(_)
ToLowerCase(s) ==
    IF s = <<>> THEN <<>>
    ELSE StrCat(Run(LowerOf(s[1].c), s[1].n), ToLowerCase(Tail(s)))

\* s.includes(t)
Includes(s, t) ==
    LET a == Expand(s)
        b == Expand(t)
    IN  \E k \in 0..(Len(a) - Len(b)) : SubSeq(a, k + 1, k + Len(b)) = b

(***************************************************************************)
(* FinancialQuerySchema: z.string().min(3, ..).max(2000, ..).trim().        *)
(* A ZodString runs its checks in the order they were chained, each on the  *)
(* current value of the input; trim replaces the input by its trimmed form. *)
(***************************************************************************)
MIN_QUERY_LENGTH == 3
MAX_QUERY_LENGTH == 2000
MsgTooShort == "Query must contain at least 3 characters"
MsgTooLong == "Query exceeds maximum length of 2000 characters"

FinancialQuerySchema ==
    << [kind |-> "min", value |-> MIN_QUERY_LENGTH, message |-> MsgTooShort],
       [kind |-> "max", value |-> MAX_QUERY_LENGTH, message |-> MsgTooLong],
       [kind |-> "trim"] >>

\* one check of ZodString._parse applied to the running (data, issues) pair
ZodStringCheck(check, st) ==
    CASE check.kind = "min" ->
            IF StrLen(st.data) < check.value
            THEN [st EXCEPT !.errors = Append(@, check.message)] ELSE st
      [] check.kind = "max" ->
            IF StrLen(st.data) > check.value
            THEN [st EXCEPT !.errors = Append(@, check.message)] ELSE st
      [] check.kind = "trim" -> [st EXCEPT !.data = Trim(@)]

RECURSIVE ZodStringParse(_, _)
ZodStringParse(checks, st) ==
    IF checks = <<>> THEN st
    ELSE ZodStringParse(Tail(checks), ZodStringCheck(Head(checks), st))

\* FinancialQuerySchema.safeParse({ prompt: rawPrompt })
SafeParse(raw) ==
    LET st == ZodStringParse(FinancialQuerySchema, [data |-> raw, errors |-> <<>>])
    IN  [success |-> st.errors = <<>>, prompt |-> st.data, errors |-> st.errors]

(***************************************************************************)
(* Completion texts.                                                        *)
(***************************************************************************)
TWs == [k |-> "ws"]                \* a run of whitespace
TProse == [k |-> "prose"]          \* markdown prose
TOpen == [k |-> "open"]            \* <data>
TClose == [k |-> "close"]          \* </data>
TFenceJson == [k |-> "fencejson"]  \* ```json
TFence == [k |-> "fence"]          \* ```
TJunk == [k |-> "junk"]            \* text that is no JSON, such as {not json}
TJson(doc) == [k |-> "json", doc |-> doc]   \* the JSON text of doc

\* text.match(/<data>([\s\S]*?)<\/data>/): the leftmost <data> and the first
\* </data> after it; group is the capture between them
\* a regular expression that remembers where its last match ended
DataMatch_Stateful(text) ==
    LET opens == {i \in 1..Len(text) : text[i] = TOpen}
    IN  IF opens = {} \/ appended # <<>> THEN [matched |-> FALSE, group |-> <<>>]
        ELSE LET i == CHOOSE x \in opens : \A y \in opens : x <= y
                 closes == {j \in (i + 1)..Len(text) : text[j] = TClose}
             IN  IF closes = {} THEN [matched |-> FALSE, group |-> <<>>]
                 ELSE LET j == CHOOSE x \in closes : \A y \in closes : x <= y
                      IN  [matched |-> TRUE, group |-> SubSeq(text, i + 1, j - 1)]

\* a greedy group: from the first <data> to the last </data>
DataMatch_Greedy(text) ==
    LET opens == {i \in 1..Len(text) : text[i] = TOpen}
    IN  IF opens = {} THEN [matched |-> FALSE, group |-> <<>>]
        ELSE LET i == CHOOSE x \in opens : \A y \in opens : x <= y
                 closes == {j \in (i + 1)..Len(text) : text[j] = TClose}
             IN  IF closes = {} THEN [matched |-> FALSE, group |-> <<>>]
                 ELSE LET j == CHOOSE x \in closes : \A y \in closes : x >= y
                      IN  [matched |-> TRUE, group |-> SubSeq(text, i + 1, j - 1)]

\* text.match(/<data>([\s\S]*?)<\/data>/): the leftmost <data> and the first
\* </data> after it
DataMatch(text) ==
    LET opens == {i \in 1..Len(text) : text[i] = TOpen}
    IN  IF opens = {} THEN [matched |-> FALSE, group |-> <<>>]
        ELSE LET i == CHOOSE x \in opens : \A y \in opens : x <= y
                 closes == {j \in (i + 1)..Len(text) : text[j] = TClose}
             IN  IF closes = {} THEN [matched |-> FALSE, group |-> <<>>]
                 ELSE LET j == CHOOSE x \in closes : \A y \in closes : x <= y
                      IN  [matched |-> TRUE, group |-> SubSeq(text, i + 1, j - 1)]

RECURSIVE DropLeadingWs(_)
DropLeadingWs(s) ==
    IF s # <<>> /\ Head(s) = TWs THEN DropLeadingWs(Tail(s)) ELSE s

\* s.replace(/<marker>\s*/g, "")
RECURSIVE ReplaceFence(_, _)
ReplaceFence(s, marker) ==
    IF s = <<>> THEN <<>>
    ELSE IF Head(s) = marker THEN ReplaceFence(DropLeadingWs(Tail(s)), marker)
    ELSE <<Head(s)>> \o ReplaceFence(Tail(s), marker)

RECURSIVE DropTrailingWs(_)
DropTrailingWs(s) ==
    IF s # <<>> /\ s[Len(s)] = TWs THEN DropTrailingWs(SubSeq(s, 1, Len(s) - 1))
    ELSE s

\* trim on a token sequence
TrimText(s) == DropTrailingWs(DropLeadingWs(s))

\* dataMatch[1].replace(/```json\s*/g, "").replace(/```\s*/g, "").trim()
CleanJson(group) == TrimText(ReplaceFence(ReplaceFence(group, TFenceJson), TFence))

\* JSON.parse: one JSON document, whitespace around it allowed; anything else throws
JsonParse(s) ==
    LET body == TrimText(s)
    IN  IF Len(body) = 1 /\ body[1].k = "json"
        THEN [ok |-> TRUE, value |-> body[1].doc]
        ELSE [ok |-> FALSE, value |-> Undefined]

(***************************************************************************)
(* ChartSchema.                                                             *)
(***************************************************************************)
ChartTypes == {"trend", "sector", "heatmap"}

HasKey(v, key) == v.t = "object" /\ key \in DOMAIN v.o

ChartItemSchemaOk_NoFinite(item) ==
    /\ HasKey(item, "name") /\ item.o.name.t = "string"
    /\ HasKey(item, "value") /\ item.o.value.t = "number"

\* z.object({ name: z.string(), value: z.number().finite() })
ChartItemSchemaOk(item) ==
    /\ HasKey(item, "name") /\ item.o.name.t = "string"
    /\ HasKey(item, "value") /\ IsFiniteNumber(item.o.value)

\* ChartSchema.parse(parsedData) does not throw
ChartSchemaOk(v) ==
    /\ HasKey(v, "type") /\ v.o.type.t = "string" /\ v.o.type.s \in ChartTypes
    /\ HasKey(v, "items") /\ v.o.items.t = "array"
    /\ Len(v.o.items.a) >= 1
    /\ \A i \in 1..Len(v.o.items.a) : ChartItemSchemaOk(v.o.items.a[i])

\* chartDataValid after the extraction block of analyzeFinancialDataAction
ChartDataValid(responseText) ==
    LET dataMatch == DataMatch(responseText)
    IN  IF dataMatch.matched /\ dataMatch.group # <<>>
        THEN LET parsed == JsonParse(CleanJson(dataMatch.group))
             IN  parsed.ok /\ ChartSchemaOk(parsed.value)
        ELSE FALSE

(***************************************************************************)
(* analyzeFinancialDataAction: the envelopes of its four return statements. *)
(* An absent optional field (data, error) is a field the record lacks.      *)
(***************************************************************************)
MsgConfigError == "AI service configuration error. Please contact system administrator."
MsgInvalidInput == "Invalid input: "
MsgUnavailable == "Analysis service temporarily unavailable. Please try again."
MsgEmptyResponse == "Empty response received from AI service"

\* `req_${Date.now()}_${Math.random().toString(36).substring(2, 11)}`
generateRequestId(ms, rnd) == [prefix |-> "req", ms |-> ms, rnd |-> rnd]

KeyMissing_UndefinedOnly(key) == key = Undefined

\* !apiKey
KeyMissing(key) == Falsy(key)

ValidationFailed_Ignored(validation) == FALSE

\* !validation.success
ValidationFailed(validation) == ~validation.success

ConfigErrorEnvelope(timestamp, requestId) ==
    [success |-> FALSE,
     error |-> <<MsgConfigError>>,
     testCoverage |-> [inputValidation |-> FALSE, apiResponse |-> FALSE,
                       dataParsing |-> FALSE],
     timestamp |-> timestamp, requestId |-> requestId]

ValidationErrorEnvelope_SuccessFlags(errors, timestamp, requestId) ==
    [success |-> FALSE,
     error |-> <<MsgInvalidInput>> \o Join(errors, "; "),
     testCoverage |-> [inputValidation |-> TRUE, apiResponse |-> TRUE,
                       dataParsing |-> FALSE],
     timestamp |-> timestamp, requestId |-> requestId]

ValidationErrorEnvelope(errors, timestamp, requestId) ==
    [success |-> FALSE,
     error |-> <<MsgInvalidInput>> \o Join(errors, "; "),
     testCoverage |-> [inputValidation |-> TRUE, apiResponse |-> FALSE,
                       dataParsing |-> FALSE],
     timestamp |-> timestamp, requestId |-> requestId]

\* the payload's parse error reaching the outer catch
SuccessEnvelope_ChartThrows(responseText, timestamp, requestId) ==
    IF DataMatch(responseText).matched /\ DataMatch(responseText).group # <<>>
       /\ ~ChartDataValid(responseText)
    THEN [success |-> FALSE,
          error |-> <<MsgUnavailable>>,
          testCoverage |-> [inputValidation |-> TRUE, apiResponse |-> FALSE,
                            dataParsing |-> FALSE],
          timestamp |-> timestamp, requestId |-> requestId]
    ELSE [success |-> TRUE,
          data |-> responseText,
          testCoverage |-> [inputValidation |-> TRUE, apiResponse |-> TRUE,
                            dataParsing |-> ChartDataValid(responseText)],
          timestamp |-> timestamp, requestId |-> requestId]

SuccessEnvelope(responseText, timestamp, requestId) ==
    [success |-> TRUE,
     data |-> responseText,
     testCoverage |-> [inputValidation |-> TRUE, apiResponse |-> TRUE,
                       dataParsing |-> ChartDataValid(responseText)],
     timestamp |-> timestamp, requestId |-> requestId]

ServiceErrorEnvelope_WithData(errorMessage, timestamp, requestId) ==
    [success |-> FALSE,
     error |-> <<MsgUnavailable>>,
     data |-> <<>>,
     testCoverage |-> [inputValidation |-> TRUE, apiResponse |-> FALSE,
                       dataParsing |-> FALSE],
     timestamp |-> timestamp, requestId |-> requestId]

\* the catch block; errorMessage is logged and not returned
ServiceErrorEnvelope(errorMessage, timestamp, requestId) ==
    [success |-> FALSE,
     error |-> <<MsgUnavailable>>,
     testCoverage |-> [inputValidation |-> TRUE, apiResponse |-> FALSE,
                       dataParsing |-> FALSE],
     timestamp |-> timestamp, requestId |-> requestId]

IsEmptyResponse_NoTrim(responseText) == responseText = <<>>

\* !responseText || responseText.trim().length === 0
IsEmptyResponse(responseText) ==
    responseText = <<>> \/ Len(TrimText(responseText)) = 0

Returned(envelope) == [kind |-> "return", envelope |-> envelope]
NoOutcome == [kind |-> "none"]
NoUpstream == [kind |-> "none"]
NoRequest == [kind |-> "none"]

\* analyzeFinancialDataAction up to `await model.generateContent(...)`
ActionStart(raw, rnd) ==
    /\ pc = "idle"
    /\ rawPrompt' = raw
    /\ upstream' = NoUpstream
    /\ LET requestId == generateRequestId(now, rnd)
           timestamp == now
           validation == SafeParse(raw)
       IN  /\ request' = [kind |-> "request", requestId |-> requestId,
                          timestamp |-> timestamp]
           /\ IF KeyMissing(apiKey)
              THEN /\ outcome' = Returned(ConfigErrorEnvelope(timestamp, requestId))
                   /\ pc' = "returned"
                   /\ sentPrompt' = <<>>
                   /\ calls' = 0
              ELSE IF ValidationFailed(validation)
              THEN /\ outcome' = Returned(ValidationErrorEnvelope(validation.errors,
                                                                  timestamp, requestId))
                   /\ pc' = "returned"
                   /\ sentPrompt' = <<>>
                   /\ calls' = 0
              ELSE /\ outcome' = NoOutcome
                   /\ pc' = "awaiting"
                   /\ sentPrompt' = validation.prompt
                   /\ calls' = 1

\* analyzeFinancialDataAction from the completion of generateContent on
ActionResume(result) ==
    /\ pc = "awaiting"
    /\ upstream' = result
    /\ pc' = "returned"
    /\ outcome' =
         IF result.kind = "throw"
         THEN Returned(ServiceErrorEnvelope(result.message, request.timestamp,
                                            request.requestId))
         ELSE IF IsEmptyResponse(result.text)
         THEN Returned(ServiceErrorEnvelope(MsgEmptyResponse, request.timestamp,
                                            request.requestId))
         ELSE Returned(SuccessEnvelope(result.text, request.timestamp,
                                       request.requestId))
    /\ UNCHANGED <<rawPrompt, sentPrompt, calls, request>>

(***************************************************************************)
(* Inputs.                                                                  *)
(***************************************************************************)
\* prompts: a core of non-blank characters with whitespace around it
Pad(lead, core, trail) == StrCat(StrCat(Run(" ", lead), Run("a", core)), Run(" ", trail))

CoreLengths == {0, 1, MIN_QUERY_LENGTH - 1, MIN_QUERY_LENGTH,
                MAX_QUERY_LENGTH, MAX_QUERY_LENGTH + 1}

RawPrompts == {Pad(l, c, t) : l \in 0..MaxPad, c \in CoreLengths, t \in 0..MaxPad}

ApiKeys == {Undefined, JStr(""), JStr("AIza-key")}

RandomSuffixes == {"k3x9"}

\* items an embedded payload may list
ItemA == JObj([name |-> JStr("NVDA"), value |-> JNum(1)])
ItemB == JObj([name |-> JStr("AMD"), value |-> JNum(2)])
ItemNumericName == JObj([name |-> JNum(7), value |-> JNum(3)])
ItemInfinite == JObj([name |-> JStr("BTC"), value |-> JInf])
ItemStringValue == JObj([name |-> JStr("SPY"), value |-> JStr("4")])
ItemNoValue == JObj([name |-> JStr("TSLA")])
BadItems == {ItemNumericName, ItemInfinite, ItemStringValue, ItemNoValue, Null}
ItemVals == {ItemA, ItemB} \cup BadItems

\* item lists of up to MaxItems items, at most one of them malformed
ItemSeqs ==
    {a \in UNION {[1..n -> ItemVals] : n \in 0..MaxItems} :
        Cardinality({i \in 1..Len(a) : a[i] \in BadItems}) <= 1}

TypeNames == ChartTypes \cup {"pie"}

Docs ==
    {JObj([type |-> JStr(ty), items |-> JArr(a)]) : ty \in TypeNames, a \in ItemSeqs}
    \cup {JObj([items |-> JArr(<<ItemA>>)]),
          JObj([type |-> JStr("trend")]),
          JObj([type |-> JNum(1), items |-> JArr(<<ItemA>>)]),
          JObj([type |-> JStr("trend"), items |-> JStr("abc")]),
          JObj([type |-> JStr("sector"), items |-> JArr(<<ItemA, ItemB>>),
                title |-> JStr("Sectors")]),
          JNum(5), Null, JArr(<<>>)}

\* what may stand between <data> and </data>
Bodies ==
    {<<TJson(d)>> : d \in Docs}
    \cup {<<TFenceJson, TWs, TJson(JObj([type |-> JStr(ty), items |-> JArr(<<it>>)])),
            TWs, TFence>> : ty \in TypeNames, it \in ItemVals}
    \cup {<<>>, <<TWs>>, <<TJunk>>, <<TFenceJson, TJunk, TFence>>,
          <<TJson(JObj([type |-> JStr("trend"), items |-> JArr(<<ItemA>>)])), TProse>>}

Block(body) == <<TOpen>> \o body \o <<TClose>>

GoodBody == <<TJson(JObj([type |-> JStr("heatmap"), items |-> JArr(<<ItemB, ItemA>>)]))>>

ResponseTexts ==
    {<<>>, <<TWs>>, <<TWs, TWs>>, <<TProse>>, <<TProse, TWs, TJunk>>,
     <<TProse, TOpen>> \o GoodBody, <<TClose>> \o GoodBody \o <<TOpen>>}
    \cup {<<TProse, TWs>> \o Block(b) \o <<TWs>> : b \in Bodies}
    \cup {Block(b1) \o <<TProse>> \o Block(b2) :
            b1 \in {<<>>, <<TJunk>>, GoodBody,
                    <<TJson(JObj([type |-> JStr("pie"), items |-> JArr(<<ItemA>>)]))>>},
            b2 \in {<<TJunk>>, GoodBody}}

ErrorMessages == {"fetch failed", "429 Too Many Requests",
                  "Candidate was blocked due to SAFETY",
                  "Unknown error occurred during analysis"}

UpstreamResults ==
    {[kind |-> "throw", message |-> m] : m \in ErrorMessages}
    \cup {[kind |-> "text", text |-> t] : t \in ResponseTexts}

(***************************************************************************)
(* The server action under arbitrary callers.                               *)
(***************************************************************************)
NoTimer == [kind |-> "none"]
NoHealth == [kind |-> "none"]
NoQaError == [kind |-> "none"]

\* the state of what the model adds to the action and the dashboard's history:
\* no timer set, healthCheck not called, QaErrorBoundary and HoverReceiver
\* as constructed
SideInit ==
    /\ debounceTimer = NoTimer
    /\ health = NoHealth
    /\ qaErrors = <<>>
    /\ qaMountedRef = TRUE
    /\ qaIncoming = NoQaError
    /\ orchidsLastMsg = <<>>
    /\ posted = <<>>
    /\ isVisualEditMode = [t |-> "boolean", b |-> FALSE]
    /\ hoverMounted = FALSE
    /\ visualEditStored = "absent"

NoAnalysis == [kind |-> "none"]
NoError == [kind |-> "none"]
AbsentItem == [kind |-> "absent"]

Init ==
    /\ apiKey \in ApiKeys
    /\ now = 0
    /\ pc = "idle"
    /\ rawPrompt = <<>>
    /\ sentPrompt = <<>>
    /\ calls = 0
    /\ upstream = NoUpstream
    /\ outcome = NoOutcome
    /\ request = NoRequest
    /\ mountedRef = TRUE
    /\ loading = FALSE
    /\ error = NoError
    /\ currentAnalysis = NoAnalysis
    /\ history = <<>>
    /\ storage = AbsentItem
    /\ query = <<>>
    /\ effectsRun = FALSE
    /\ activeQuery = <<>>
    /\ appended = <<>>
    /\ renderError = FALSE
    /\ sidebarSearch = <<>>
    /\ debouncedSearch = <<>>
    /\ inFlight = 0
    /\ SideInit

\* the clock advances
Tick ==
    /\ now < MaxTime
    /\ now' = now + 1
    /\ UNCHANGED <<apiKey, sideVars, serverVars, dashVars, viewVars>>

\* a caller invokes the action with any string
Invoke ==
    /\ \E raw \in RawPrompts, rnd \in RandomSuffixes : ActionStart(raw, rnd)
    /\ UNCHANGED <<apiKey, sideVars, now, dashVars, viewVars>>

\* the completion endpoint answers, or the call fails
Complete ==
    /\ \E result \in UpstreamResults : ActionResume(result)
    /\ UNCHANGED <<apiKey, sideVars, now, dashVars, viewVars>>

\* the caller has the envelope; the next invocation may start
Receive ==
    /\ pc = "returned"
    /\ pc' = "idle"
    /\ rawPrompt' = <<>>
    /\ sentPrompt' = <<>>
    /\ calls' = 0
    /\ upstream' = NoUpstream
    /\ outcome' = NoOutcome
    /\ request' = NoRequest
    /\ UNCHANGED <<apiKey, sideVars, now, dashVars, viewVars>>

healthCheck_DefinedIsOperational(key, ms) ==
    [kind |-> "health",
     status |-> IF key # Undefined THEN "operational" ELSE "degraded",
     timestamp |-> ms]

\* { status: apiKey ? "operational" : "degraded", timestamp: Date.now() }
healthCheck(key, ms) ==
    [kind |-> "health",
     status |-> IF ~Falsy(key) THEN "operational" ELSE "degraded",
     timestamp |-> ms]

\* a caller invokes healthCheck; it reads the environment and the clock and
\* returns
HealthCheck ==
    /\ health' = healthCheck(apiKey, now)
    /\ UNCHANGED <<apiKey, now, serverVars, dashVars, viewVars, qaVars, orchidsVars>>

Next == Tick \/ Invoke \/ Complete \/ Receive \/ HealthCheck

Spec == Init /\ [][Next]_vars

(***************************************************************************)
(* The dashboard: useLocalStorage.                                          *)
(* The stored string is either the JSON text of a value or text that is no  *)
(* JSON.  JSON.stringify leaves out the keys whose value is undefined and   *)
(* yields undefined for a function; setItem stores String(value).           *)
(***************************************************************************)
MAX_HISTORY_ITEMS == 50

JsonText(v) == [kind |-> "json", value |-> v]          \* the JSON text of an array
JsonValueText(v) == [kind |-> "jsonvalue", value |-> v]  \* JSON text of another value
RawText(s) == [kind |-> "raw", text |-> s]
StoredItem(text) == [kind |-> "item", text |-> text]

\* JSON.stringify of one history item
StringifyItem(item) ==
    [f \in {g \in DOMAIN item : ~(g = "data" /\ item[g] = Undefined)} |-> item[f]]

\* the two kinds of argument setValue is called with
ArrayValue(items) == [kind |-> "array", items |-> items]
UpdaterFunction(newItem) == [kind |-> "updater", newItem |-> newItem]

JsonStringify_AlwaysUndefined(value) == Undefined

\* JSON.stringify(value)
JsonStringify(value) ==
    IF value.kind = "updater" THEN Undefined
    ELSE JsonText([i \in 1..Len(value.items) |-> StringifyItem(value.items[i])])

\* the string localStorage.setItem(key, v) stores
StorageString(v) == IF v = Undefined THEN RawText("undefined") ELSE v

HistoryUpdater_SliceMax(newItem, prev) ==
    <<newItem>> \o SubSeq(prev, 1, IF Len(prev) < MAX_HISTORY_ITEMS
                                   THEN Len(prev) ELSE MAX_HISTORY_ITEMS)

\* prev => [newItem, ...prev.slice(0, MAX_HISTORY_ITEMS - 1)]
HistoryUpdater(newItem, prev) ==
    <<newItem>> \o SubSeq(prev, 1, IF Len(prev) < MAX_HISTORY_ITEMS - 1
                                   THEN Len(prev) ELSE MAX_HISTORY_ITEMS - 1)

\* setStoredValue(value): React applies an updater function to the state
SetStoredValue(value, prev) ==
    IF value.kind = "updater" THEN HistoryUpdater(value.newItem, prev)
    ELSE value.items

SetValue_WriteFirst(value, prev, stored, writeOk) ==
    [storedValue |-> IF writeOk THEN SetStoredValue(value, prev) ELSE prev,
     storage |-> IF writeOk THEN StoredItem(StorageString(JsonStringify(value)))
                 ELSE stored]

\* useLocalStorage.setValue: the new [storedValue, storage]; setItem throws
\* when the write is refused, and the catch block logs it
SetValue(value, prev, stored, writeOk) ==
    [storedValue |-> SetStoredValue(value, prev),
     storage |-> IF writeOk THEN StoredItem(StorageString(JsonStringify(value)))
                 ELSE stored]

\* useLocalStorage's mount effect: the value of storedValue after
\* `if (item) setStoredValue(JSON.parse(item) as T)`; JSON.parse throws on
\* text that is no JSON and the catch block logs it
LoadedValue(stored, storedValue) ==
    IF stored.kind = "item" /\ stored.text.kind \in {"json", "jsonvalue"}
    THEN stored.text.value
    ELSE storedValue

\* item.query.toLowerCase() throws a TypeError
QueryThrows(item) == "query" \notin DOMAIN item

\* rendering with the loaded value: history.filter(item => item.query...)
\* throws when the value has no filter method or an element has no query
FilterThrows(stored) ==
    /\ stored.kind = "item"
    /\ \/ stored.text.kind = "jsonvalue"
       \/ /\ stored.text.kind = "json"
          /\ \E i \in 1..Len(stored.text.value) : QueryThrows(stored.text.value[i])

DEBOUNCE_DELAY_Short == 50 + 50

DEBOUNCE_DELAY == 300

\* setTimeout(() => setDebouncedValue(value), delay), called at time `at`
Timeout(value, at, delay) ==
    [kind |-> "timeout", value |-> value, setAt |-> at, delay |-> delay]

\* the mount effects: useLocalStorage reads the key, useDebouncedValue sets
\* its first timer; a render that throws unmounts the page and its cleanup
\* clears the timer
LoadEffect ==
    /\ ~effectsRun /\ ~renderError
    /\ effectsRun' = TRUE
    /\ history' = LoadedValue(storage, history)
    /\ renderError' = FilterThrows(storage)
    /\ debounceTimer' = IF FilterThrows(storage) THEN NoTimer
                        ELSE Timeout(sidebarSearch, now, DEBOUNCE_DELAY)
    /\ UNCHANGED <<apiKey, sideVars, now, serverVars, mountedRef, loading, error,
                   currentAnalysis, storage, query, activeQuery, appended,
                   sidebarSearch, debouncedSearch, inFlight>>

(***************************************************************************)
(* The dashboard: validateChartData and handleSearch.                       *)
(***************************************************************************)
\* v?.length is truthy
HasLength(v) ==
    \/ v.t = "array" /\ Len(v.a) > 0
    \/ v.t = "string" /\ v.s # ""

\* v.key, undefined when v has no such property
Prop(v, key) == IF v.t = "object" /\ key \in DOMAIN v.o THEN v.o[key] ELSE Undefined

\* a filter that also drops the values up to 1
IsValidItem_AboveOne(item) ==
    /\ ~Falsy(item)
    /\ item.t = "object" /\ "name" \in DOMAIN item.o
    /\ "value" \in DOMAIN item.o
    /\ item.o.value.t = "number"
    /\ IsFiniteNumber(item.o.value)
    /\ item.o.value.n > 1

\* the filter predicate of validateChartData
IsValidItem(item) ==
    /\ ~Falsy(item)
    /\ item.t \in {"object", "array"}
    /\ item.t = "object" /\ "name" \in DOMAIN item.o
    /\ "value" \in DOMAIN item.o
    /\ item.o.value.t = "number"
    /\ IsFiniteNumber(item.o.value)

validateChartData(text) ==
    LET dataMatch == DataMatch(text)
    IN  IF ~(dataMatch.matched /\ dataMatch.group # <<>>) THEN Null
        ELSE LET parsed == JsonParse(CleanJson(dataMatch.group))
                 data == parsed.value
             IN  IF ~parsed.ok THEN Null
                 ELSE IF ~HasLength(Prop(data, "items")) \/ Falsy(Prop(data, "type"))
                 THEN Null
                 ELSE IF Prop(data, "items").t # "array" THEN Null   \* filter is no function
                 ELSE LET validItems == SelectSeq(Prop(data, "items").a, IsValidItem)
                      IN  IF Len(validItems) = 0 THEN Null
                          ELSE JObj([type |-> Prop(data, "type"),
                                     items |-> JArr(validItems)])

\* the HistoryItem handleSearch builds from a successful envelope
NewItem(result, aq, ms, rnd) ==
    LET chartData == validateChartData(result.data)
    IN  [id |-> [prefix |-> "qa", ms |-> ms, rnd |-> rnd],
         query |-> aq,
         response |-> result.data,
         timestamp |-> ms,
         data |-> IF chartData = Null THEN Undefined ELSE chartData,
         requestId |-> result.requestId]

\* setQuery from the input box
TypeQuery(text) ==
    /\ effectsRun /\ ~renderError /\ ~loading /\ error = NoError
    /\ query' = text
    /\ UNCHANGED <<apiKey, sideVars, now, serverVars, mountedRef, loading, error,
                   currentAnalysis, history, storage, effectsRun, activeQuery,
                   appended, viewVars>>

SearchRefused_IgnoresLoading(aq, isLoading) == aq = <<>>

\* !activeQuery || loading
SearchRefused(aq, isLoading) == aq = <<>> \/ isLoading

\* handleSearch up to `await analyzeFinancialDataAction(activeQuery)`; the
\* invocation variables follow one call of the action at a time
HandleSearchStart(customQuery, rnd) ==
    LET aq == Trim(IF customQuery # <<>> THEN customQuery ELSE query)
    IN  /\ effectsRun /\ ~renderError /\ error = NoError
        /\ ~SearchRefused(aq, loading)
        /\ loading' = TRUE
        /\ error' = NoError
        /\ inFlight' = inFlight + 1
        /\ IF pc = "idle"
           THEN activeQuery' = aq /\ ActionStart(aq, rnd)
           ELSE UNCHANGED <<activeQuery, serverVars>>
        /\ UNCHANGED <<apiKey, sideVars, now, mountedRef, currentAnalysis, history, storage,
                       query, effectsRun, appended, renderError, sidebarSearch,
                       debouncedSearch, debounceTimer>>

\* the request to the server action fails in transport: the awaited promise
\* rejects with an Error
Rejected(message) == [kind |-> "throw", isError |-> TRUE, message |-> message]

\* err instanceof Error ? err.message : 'Analysis request failed'
CaughtMessage(thrown) ==
    IF thrown.isError THEN thrown.message ELSE "Analysis request failed"

EnvelopeFailed_Never(result) == FALSE

\* !result.success
EnvelopeFailed(result) == ~result.success

\* result.data, undefined (falsy) on an envelope without data
DataOf(result) == IF "data" \in DOMAIN result THEN result.data ELSE <<>>

\* handleSearch from the envelope on: the throw on failure, the new item,
\* the catch and the finally block
HandleSearchResume(rnd, writeOk) ==
    /\ pc = "returned" /\ loading /\ inFlight > 0 /\ ~renderError
    /\ IF outcome.kind = "throw"
       THEN /\ error' = [kind |-> "error", message |-> <<CaughtMessage(outcome)>>]
            /\ UNCHANGED <<history, storage, currentAnalysis, query, appended>>
       ELSE LET result == outcome.envelope
            IN  IF EnvelopeFailed(result)
                THEN /\ error' = [kind |-> "error",
                                  message |-> IF result.error # <<>> THEN result.error
                                              ELSE <<"Analysis failed">>]
                     /\ UNCHANGED <<history, storage, currentAnalysis, query, appended>>
                ELSE IF DataOf(result) # <<>> /\ mountedRef
                THEN LET newItem == NewItem(result, activeQuery, now, rnd)
                         set == SetValue(UpdaterFunction(newItem), history, storage,
                                         writeOk)
                     IN  /\ history' = set.storedValue
                         /\ storage' = set.storage
                         /\ currentAnalysis' = newItem
                         /\ query' = <<>>
                         /\ appended' = Append(appended, newItem)
                         /\ error' = error
                ELSE UNCHANGED <<history, storage, currentAnalysis, query, appended,
                                 error>>
    /\ loading' = IF mountedRef THEN FALSE ELSE loading
    /\ inFlight' = inFlight - 1
    /\ pc' = "idle"
    /\ rawPrompt' = <<>>
    /\ sentPrompt' = <<>>
    /\ calls' = 0
    /\ upstream' = NoUpstream
    /\ outcome' = NoOutcome
    /\ request' = NoRequest
    /\ UNCHANGED <<apiKey, sideVars, now, mountedRef, effectsRun, activeQuery, renderError,
                   sidebarSearch, debouncedSearch, debounceTimer>>

(***************************************************************************)
(* The dashboard: the sidebar, clearHistory, the error screen.              *)
(***************************************************************************)
FilterMatches_TermAsTyped(item, term) ==
    Includes(ToLowerCase(item.query), term)

\* item.query.toLowerCase().includes(debouncedSearch.toLowerCase())
FilterMatches(item, term) ==
    Includes(ToLowerCase(item.query), ToLowerCase(term))

\* the useMemo over [history, debouncedSearch]
filteredHistory(hist, term) ==
    SelectSeq(hist, LAMBDA item : FilterMatches(item, term))

\* onChange of the sidebar's input: setSidebarSearch(e.target.value); the
\* effect of useDebouncedValue clears the pending timer and sets a new one
SetSidebarSearch(text) ==
    /\ effectsRun /\ ~renderError /\ error = NoError
    /\ sidebarSearch # text
    /\ sidebarSearch' = text
    /\ debounceTimer' = Timeout(text, now, DEBOUNCE_DELAY)
    /\ UNCHANGED <<apiKey, sideVars, now, serverVars, dashVars, renderError,
                   debouncedSearch, inFlight>>

\* useDebouncedValue: the pending timer fires, not before its delay has passed
DebounceElapsed ==
    /\ effectsRun /\ ~renderError
    /\ debounceTimer.kind = "timeout"
    /\ now >= debounceTimer.setAt + debounceTimer.delay
    /\ debouncedSearch' = debounceTimer.value
    /\ debounceTimer' = NoTimer
    /\ UNCHANGED <<apiKey, sideVars, now, serverVars, dashVars, renderError,
                   sidebarSearch, inFlight>>

\* time passes
Elapse(d) ==
    /\ now' = now + d
    /\ UNCHANGED <<apiKey, sideVars, serverVars, dashVars, viewVars>>

\* a click on an entry of the sidebar: setCurrentAnalysis(item)
SelectItem(i) ==
    /\ effectsRun /\ ~renderError /\ error = NoError
    /\ i \in 1..Len(filteredHistory(history, debouncedSearch))
    /\ currentAnalysis' = filteredHistory(history, debouncedSearch)[i]
    /\ UNCHANGED <<apiKey, sideVars, now, serverVars, mountedRef, loading, error,
                   history, storage, query, effectsRun, activeQuery, appended,
                   viewVars>>

\* the Retry button of the error screen: setError(null)
Retry ==
    /\ effectsRun /\ ~renderError /\ error # NoError
    /\ error' = NoError
    /\ UNCHANGED <<apiKey, sideVars, now, serverVars, mountedRef, loading, currentAnalysis,
                   history, storage, query, effectsRun, activeQuery, appended,
                   viewVars>>

clearHistory_KeepsAnalysis(confirmed, writeOk) ==
    /\ effectsRun /\ ~renderError /\ error = NoError
    /\ Len(history) > 0
    /\ IF mountedRef /\ confirmed
       THEN LET set == SetValue(ArrayValue(<<>>), history, storage, writeOk)
            IN  /\ history' = set.storedValue
                /\ storage' = set.storage
                /\ currentAnalysis' = currentAnalysis
       ELSE UNCHANGED <<history, storage, currentAnalysis>>
    /\ UNCHANGED <<apiKey, sideVars, now, serverVars, mountedRef, loading, error,
                   query, effectsRun, activeQuery, appended, viewVars>>

\* clearHistory, from the button rendered while history.length > 0;
\* confirmed is the answer to confirm(...)
clearHistory(confirmed, writeOk) ==
    /\ effectsRun /\ ~renderError /\ error = NoError
    /\ Len(history) > 0
    /\ IF mountedRef /\ confirmed
       THEN LET set == SetValue(ArrayValue(<<>>), history, storage, writeOk)
            IN  /\ history' = set.storedValue
                /\ storage' = set.storage
                /\ currentAnalysis' = NoAnalysis
       ELSE UNCHANGED <<history, storage, currentAnalysis>>
    /\ UNCHANGED <<apiKey, sideVars, now, serverVars, mountedRef, loading, error, query,
                   effectsRun, activeQuery, appended, viewVars>>

\* the effects of the mounted dashboard are cleaned up and set up again, as
\* React does once after the first mount in Strict Mode: the cleanup clears
\* the debounce timer and sets mountedRef.current = false, the setup reads
\* the storage key again and sets a timer; no setup assigns mountedRef
RemountEffects ==
    /\ effectsRun /\ ~renderError
    /\ mountedRef
    /\ mountedRef' = FALSE
    /\ history' = LoadedValue(storage, history)
    /\ renderError' = FilterThrows(storage)
    /\ debounceTimer' = IF FilterThrows(storage) THEN NoTimer
                        ELSE Timeout(sidebarSearch, now, DEBOUNCE_DELAY)
    /\ UNCHANGED <<apiKey, sideVars, now, serverVars, loading, error,
                   currentAnalysis, storage, query, effectsRun, activeQuery,
                   appended, sidebarSearch, debouncedSearch, inFlight>>

\* the page is loaded anew: every state of the component starts over, the
\* storage stays
Reload ==
    /\ effectsRun \/ renderError
    /\ pc = "idle" /\ inFlight = 0
    /\ mountedRef' = TRUE
    /\ loading' = FALSE
    /\ error' = NoError
    /\ currentAnalysis' = NoAnalysis
    /\ history' = <<>>
    /\ query' = <<>>
    /\ effectsRun' = FALSE
    /\ activeQuery' = <<>>
    /\ appended' = <<>>
    /\ renderError' = FALSE
    /\ sidebarSearch' = <<>>
    /\ debouncedSearch' = <<>>
    /\ inFlight' = 0
    /\ debounceTimer' = NoTimer
    /\ UNCHANGED <<apiKey, sideVars, now, serverVars, storage>>

(***************************************************************************)
(* One long session of the dashboard: the user types a query or clicks a    *)
(* quick test, every completion succeeds and arrives a millisecond later.   *)
(***************************************************************************)
\* "Validate Nvidia API response"
QuickTests == {StrCat(Run("a", 8), StrCat(Run(" ", 1), StrCat(Run("a", 6),
               StrCat(Run(" ", 1), StrCat(Run("a", 3), StrCat(Run(" ", 1),
               Run("a", 8)))))))}

SessionQueries == {Pad(1, MIN_QUERY_LENGTH, 0)}
SessionSuffixes == {"k3x9"}
SessionTexts == {<<TProse, TWs>> \o Block(GoodBody) \o <<TWs>>}

\* what an earlier session of the dashboard may have left in the storage
LeftInStorage == {AbsentItem, StoredItem(RawText("undefined")),
                  StoredItem(JsonText(<<>>))}

SessionInit ==
    /\ apiKey = JStr("AIza-key")
    /\ now = 0
    /\ pc = "idle"
    /\ rawPrompt = <<>>
    /\ sentPrompt = <<>>
    /\ calls = 0
    /\ upstream = NoUpstream
    /\ outcome = NoOutcome
    /\ request = NoRequest
    /\ mountedRef = TRUE
    /\ loading = FALSE
    /\ error = NoError
    /\ currentAnalysis = NoAnalysis
    /\ history = <<>>
    /\ storage \in LeftInStorage
    /\ query = <<>>
    /\ effectsRun = FALSE
    /\ activeQuery = <<>>
    /\ appended = <<>>
    /\ renderError = FALSE
    /\ sidebarSearch = <<>>
    /\ debouncedSearch = <<>>
    /\ inFlight = 0
    /\ SideInit

SessionType ==
    /\ query = <<>>
    /\ Len(appended) < MaxAppends
    /\ \E text \in SessionQueries : TypeQuery(text)

SessionFormSubmit ==
    /\ Len(appended) < MaxAppends
    /\ \E rnd \in SessionSuffixes : HandleSearchStart(<<>>, rnd)

\* the quick tests are rendered while nothing is displayed
SessionQuickTest ==
    /\ currentAnalysis = NoAnalysis
    /\ \E q \in QuickTests, rnd \in SessionSuffixes : HandleSearchStart(q, rnd)

SessionComplete ==
    /\ \E text \in SessionTexts : ActionResume([kind |-> "text", text |-> text])
    /\ now' = now + 1
    /\ UNCHANGED <<apiKey, sideVars, dashVars, viewVars>>

SessionResume ==
    \E rnd \in SessionSuffixes : HandleSearchResume(rnd, TRUE)

SessionNext ==
    LoadEffect \/ SessionType \/ SessionFormSubmit \/ SessionQuickTest
    \/ SessionComplete \/ SessionResume

SessionSpec == SessionInit /\ [][SessionNext]_vars

(***************************************************************************)
(* One submission of the dashboard at a time, the completion being any      *)
(* text or failure; a failed one is retried by hand.                        *)
(***************************************************************************)
ExtractInit == SessionInit /\ storage = AbsentItem

ExtractSubmit ==
    /\ appended = <<>>
    /\ \E q \in QuickTests, rnd \in SessionSuffixes : HandleSearchStart(q, rnd)

ExtractComplete ==
    /\ \E result \in UpstreamResults : ActionResume(result)
    /\ UNCHANGED <<apiKey, sideVars, now, dashVars, viewVars>>

ExtractResume ==
    \E rnd \in SessionSuffixes : HandleSearchResume(rnd, TRUE)

ExtractNext ==
    LoadEffect \/ ExtractSubmit \/ ExtractComplete \/ ExtractResume \/ Retry

ExtractSpec == ExtractInit /\ [][ExtractNext]_vars

(***************************************************************************)
(* The dashboard in full: whatever the storage holds at startup, the user   *)
(* types, submits, searches the sidebar, clears the history and reloads the *)
(* page; completions succeed or fail, storage writes succeed or fail.       *)
(***************************************************************************)
QueryNan == FromChars(<<"N", "a", "n">>)
QueryAna == FromChars(<<"a", "n", "a">>)
QueryShort == FromChars(<<"a">>)
DashQueries == {QueryNan, QueryAna, QueryShort}

DashTerms == {<<>>, FromChars(<<"n", "a", "n">>), FromChars(<<"A", "N">>)}

DashTexts == {<<TProse, TWs>> \o Block(GoodBody) \o <<TWs>>}

DashResults ==
    {[kind |-> "throw", message |-> "fetch failed"]}
    \cup {[kind |-> "text", text |-> t] : t \in DashTexts}

\* a history item as JSON.stringify writes it, the k-th of an earlier session
OldItem(k) ==
    [id |-> [prefix |-> "qa", ms |-> k, rnd |-> "old1"],
     query |-> QueryAna,
     response |-> <<TProse>>,
     timestamp |-> k,
     requestId |-> generateRequestId(k, "old1")]

OldItems(n) == [k \in 1..n |-> OldItem(k)]

\* what the storage key may hold when the page loads
DashStorage ==
    {AbsentItem,
     StoredItem(RawText("")),
     StoredItem(RawText("undefined")),
     StoredItem(RawText("{not json")),
     StoredItem(JsonText(<<>>)),
     StoredItem(JsonText(OldItems(1))),
     StoredItem(JsonText(OldItems(MAX_HISTORY_ITEMS + 1))),
     StoredItem(JsonText(<<JNum(5)>>)),
     StoredItem(JsonValueText(JObj([a |-> JNum(1)]))),
     StoredItem(JsonValueText(JNum(5))),
     StoredItem(JsonValueText(JStr("abc"))),
     StoredItem(JsonValueText(Null))}

DashInit ==
    /\ apiKey = JStr("AIza-key")
    /\ now = 0
    /\ pc = "idle"
    /\ rawPrompt = <<>>
    /\ sentPrompt = <<>>
    /\ calls = 0
    /\ upstream = NoUpstream
    /\ outcome = NoOutcome
    /\ request = NoRequest
    /\ mountedRef = TRUE
    /\ loading = FALSE
    /\ error = NoError
    /\ currentAnalysis = NoAnalysis
    /\ history = <<>>
    /\ storage \in DashStorage
    /\ query = <<>>
    /\ effectsRun = FALSE
    /\ activeQuery = <<>>
    /\ appended = <<>>
    /\ renderError = FALSE
    /\ sidebarSearch = <<>>
    /\ debouncedSearch = <<>>
    /\ inFlight = 0
    /\ SideInit

DashType ==
    \E text \in DashQueries : query # text /\ TypeQuery(text)

\* the form's submit event; it may be dispatched while a call is pending
DashFormSubmit ==
    /\ Len(appended) < MaxSubmits
    /\ \E rnd \in SessionSuffixes : HandleSearchStart(<<>>, rnd)

\* a quick test, rendered while nothing is displayed and nothing is pending
DashQuickTest ==
    /\ Len(appended) < MaxSubmits
    /\ currentAnalysis = NoAnalysis /\ ~loading
    /\ \E q \in QuickTests, rnd \in SessionSuffixes : HandleSearchStart(q, rnd)

DashComplete ==
    /\ \E result \in DashResults : ActionResume(result)
    /\ UNCHANGED <<apiKey, sideVars, now, dashVars, viewVars>>

\* the call of the server action is lost in transport
DashReject ==
    /\ pc = "awaiting"
    /\ pc' = "returned"
    /\ outcome' = Rejected("fetch failed")
    /\ UNCHANGED <<rawPrompt, sentPrompt, calls, upstream, request>>
    /\ UNCHANGED <<apiKey, sideVars, now, dashVars, viewVars>>

DashResume ==
    \E rnd \in SessionSuffixes, writeOk \in BOOLEAN : HandleSearchResume(rnd, writeOk)

DashClear ==
    \E confirmed \in BOOLEAN, writeOk \in BOOLEAN : clearHistory(confirmed, writeOk)

DashSidebar ==
    \E text \in DashTerms : SetSidebarSearch(text)

\* a click on one of the first entries the sidebar shows
DashSelect ==
    \E i \in 1..(MaxSubmits + 1) : SelectItem(i)

\* here the clock stands still: the sidebar's search box is left alone, see
\* SearchSpec
DashNext ==
    \/ LoadEffect \/ DashType \/ DashFormSubmit \/ DashQuickTest
    \/ DashComplete \/ DashReject \/ DashResume \/ DashClear
    \/ DashSelect \/ Retry \/ Reload

DashSpec == DashInit /\ [][DashNext]_vars

(***************************************************************************)
(* The sidebar of the dashboard over a stored history, with the clock: the  *)
(* user types into the search box, time passes, the debounce timer fires,   *)
(* the user picks an entry or clears the history.                           *)
(***************************************************************************)
\* a stored item of an earlier session with the query q
OldItemAbout(k, q) == [OldItem(k) EXCEPT !.query = q]

SearchStorage ==
    {AbsentItem,
     StoredItem(JsonText(<<OldItemAbout(3, QueryNan), OldItemAbout(2, QueryShort),
                           OldItemAbout(1, QueryAna)>>))}

\* the steps of the clock, in ms
ElapseSteps == {50, 250}

\* the clock of SearchSpec stops here
SearchHorizon == (MaxTime + 1) * 300

SearchInit ==
    /\ apiKey = JStr("AIza-key")
    /\ now = 0
    /\ pc = "idle"
    /\ rawPrompt = <<>>
    /\ sentPrompt = <<>>
    /\ calls = 0
    /\ upstream = NoUpstream
    /\ outcome = NoOutcome
    /\ request = NoRequest
    /\ mountedRef = TRUE
    /\ loading = FALSE
    /\ error = NoError
    /\ currentAnalysis = NoAnalysis
    /\ history = <<>>
    /\ storage \in SearchStorage
    /\ query = <<>>
    /\ effectsRun = FALSE
    /\ activeQuery = <<>>
    /\ appended = <<>>
    /\ renderError = FALSE
    /\ sidebarSearch = <<>>
    /\ debouncedSearch = <<>>
    /\ inFlight = 0
    /\ SideInit

SearchElapse ==
    \E d \in ElapseSteps : now + d <= SearchHorizon /\ Elapse(d)

SearchNext ==
    \/ LoadEffect \/ DashSidebar \/ SearchElapse \/ DebounceElapsed
    \/ DashSelect \/ DashClear

SearchSpec == SearchInit /\ [][SearchNext]_vars

(***************************************************************************)
(* QaErrorBoundary: trackQaError and the handlers that call it.             *)
(***************************************************************************)
QaError(message, ms, source) ==
    [message |-> message, timestamp |-> ms, source |-> source]

QaDuplicate_Never(prev, errorData) == FALSE

\* prev.length > 0 && prev[0].message === errorData.message
QaDuplicate(prev, errorData) ==
    Len(prev) > 0 /\ prev[1].message = errorData.message

\* trackQaError: nothing once mountedRef.current is false; otherwise the
\* updater of setQaErrors
trackQaError(errorData) ==
    /\ qaIncoming' = errorData
    /\ qaErrors' = IF ~qaMountedRef THEN qaErrors
                   ELSE IF QaDuplicate(qaErrors, errorData) THEN qaErrors
                   ELSE <<errorData>>
                        \o SubSeq(qaErrors, 1, IF Len(qaErrors) < 9 THEN Len(qaErrors)
                                               ELSE 9)
    /\ UNCHANGED qaMountedRef

\* the window's error event
HandleRuntimeError(message, fromTest) ==
    /\ trackQaError(QaError(message, now, IF fromTest THEN "test" ELSE "runtime"))
    /\ UNCHANGED <<apiKey, now, serverVars, dashVars, viewVars, health, orchidsVars>>

\* the window's unhandledrejection event
HandlePromiseRejection(message) ==
    /\ trackQaError(QaError(message, now, "api"))
    /\ UNCHANGED <<apiKey, now, serverVars, dashVars, viewVars, health, orchidsVars>>

\* the effect over the error prop of the boundary, run at the mount
TrackBoundaryError(message) ==
    /\ qaIncoming = NoQaError
    /\ trackQaError(QaError(message, now, "boundary"))
    /\ UNCHANGED <<apiKey, now, serverVars, dashVars, viewVars, health, orchidsVars>>

\* the effects of the mounted boundary are cleaned up and set up again: the
\* handlers are registered anew, mountedRef.current stays false
QaRemountEffects ==
    /\ qaMountedRef
    /\ qaMountedRef' = FALSE
    /\ UNCHANGED <<apiKey, now, serverVars, dashVars, viewVars, health, orchidsVars,
                   qaErrors, qaIncoming>>

QaRuntimeMessages == {"TypeError: x is undefined"}
QaRejectionMessages == {"fetch failed"}

QaRuntime ==
    \E message \in QaRuntimeMessages : HandleRuntimeError(message, FALSE)

QaRejection ==
    \E message \in QaRejectionMessages : HandlePromiseRejection(message)

QaBoundary == TrackBoundaryError("Rendering failed")

\* three seconds pass
QaElapse ==
    /\ now + 3000 <= MaxTime * 3000
    /\ Elapse(3000)

QaNext ==
    \/ QaBoundary \/ QaRuntime \/ QaRejection \/ QaElapse \/ QaRemountEffects

QaSpec == ExtractInit /\ [][QaNext]_vars

(***************************************************************************)
(* HoverReceiver: postMessageDedup and the handler of the parent window's   *)
(* messages.  The text JSON.stringify yields is a sequence of tokens;       *)
(* a property whose value is undefined is left out, a BigInt makes          *)
(* JSON.stringify throw.                                                    *)
(***************************************************************************)
CHANNEL == "ORCHIDS_HOVER_v1"

JBool(b) == [t |-> "boolean", b |-> b]
JBigInt(n) == [t |-> "bigint", n |-> n]

AckMessage(active) ==
    [type |-> CHANNEL, msg |-> "VISUAL_EDIT_MODE_ACK", active |-> active]

RestoredMessage ==
    [type |-> CHANNEL, msg |-> "VISUAL_EDIT_MODE_RESTORED", active |-> JBool(TRUE)]

\* JSON.stringify(data) for a message { type, msg, active }
StringifyMessage(data) ==
    IF data.active.t = "bigint" THEN [ok |-> FALSE, text |-> <<>>]
    ELSE [ok |-> TRUE,
          text |-> <<"{", "type", ":", data.type, ",", "msg", ":", data.msg>>
                   \o (IF data.active.t = "undefined" THEN <<>>
                       ELSE <<",", "active", ":",
                              IF data.active.b THEN "true" ELSE "false">>)
                   \o <<"}">>]

\* String(state.isVisualEditMode)
StringOf(v) ==
    IF v.t = "boolean" THEN (IF v.b THEN "true" ELSE "false")
    ELSE IF v.t = "undefined" THEN "undefined"
    ELSE "1"

DedupSuppressed_Never(key, last) == FALSE

\* key === _orchidsLastMsg
DedupSuppressed(key, last) == key = last

\* postMessageDedup: a message whose text is the cached one is dropped; a
\* message JSON.stringify cannot serialize is sent and leaves the cache
postMessageDedup(data) ==
    LET key == StringifyMessage(data)
    IN  IF key.ok /\ DedupSuppressed(key.text, orchidsLastMsg)
        THEN UNCHANGED <<orchidsLastMsg, posted>>
        ELSE /\ orchidsLastMsg' = IF key.ok THEN key.text ELSE orchidsLastMsg
             /\ posted' = Append(posted, data)

\* the mount effects of HoverReceiver: the stored mode is read and, when
\* it is "true", reported; the mode is written back
HoverMount ==
    /\ ~hoverMounted
    /\ hoverMounted' = TRUE
    /\ LET stored == visualEditStored = "true"
       IN  /\ isVisualEditMode' = JBool(stored)
           /\ visualEditStored' = StringOf(JBool(stored))
           /\ IF stored THEN postMessageDedup(RestoredMessage)
              ELSE UNCHANGED <<orchidsLastMsg, posted>>
    /\ UNCHANGED <<apiKey, now, serverVars, dashVars, viewVars, health, qaVars>>

\* HoverReceiver is unmounted; the module and its cache stay
HoverUnmount ==
    /\ hoverMounted
    /\ hoverMounted' = FALSE
    /\ UNCHANGED <<apiKey, now, serverVars, dashVars, viewVars, health, qaVars,
                   orchidsLastMsg, posted, isVisualEditMode, visualEditStored>>

\* handleMessage for { type: CHANNEL, msg: "VISUAL_EDIT_MODE", active }
HandleMessage(active) ==
    /\ hoverMounted
    /\ isVisualEditMode' = active
    /\ visualEditStored' = StringOf(active)
    /\ postMessageDedup(AckMessage(active))
    /\ UNCHANGED <<apiKey, now, serverVars, dashVars, viewVars, health, qaVars,
                   hoverMounted>>

\* what the parent window may send as `active`
ActiveValues == {JBool(TRUE), JBool(FALSE), JBigInt(1), Undefined}

OrchidsRequest ==
    /\ Len(posted) < MaxPosted
    /\ \E active \in ActiveValues : HandleMessage(active)

OrchidsMount == Len(posted) < MaxPosted /\ HoverMount

OrchidsNext == OrchidsMount \/ HoverUnmount \/ OrchidsRequest

OrchidsSpec == ExtractInit /\ [][OrchidsNext]_vars

(***************************************************************************)
(* Repeated submissions: the user submits the same query again and again,   *)
(* the completions carry texts of a small set, the clock may or may not     *)
(* advance in between, and Math.random draws from two suffixes.             *)
(***************************************************************************)
RepeatTexts ==
    {<<TProse>>,
     <<TProse, TWs>> \o Block(GoodBody) \o <<TWs>>,
     Block(<<TJunk>>) \o <<TProse>> \o Block(GoodBody),
     Block(GoodBody) \o <<TProse>> \o Block(<<TJunk>>)}

RepeatSuffixes == {"k3x9", "p0q7"}

RepeatType ==
    \E text \in QuickTests : query # text /\ TypeQuery(text)

RepeatSubmit ==
    /\ Len(appended) < MaxSubmits
    /\ \E rnd \in SessionSuffixes : HandleSearchStart(<<>>, rnd)

RepeatComplete ==
    /\ \E t \in RepeatTexts : ActionResume([kind |-> "text", text |-> t])
    /\ UNCHANGED <<apiKey, sideVars, now, dashVars, viewVars>>

RepeatResume ==
    \E rnd \in RepeatSuffixes : HandleSearchResume(rnd, TRUE)

RepeatNext ==
    \/ LoadEffect \/ RepeatType \/ RepeatSubmit \/ RepeatComplete
    \/ RepeatResume \/ Tick

RepeatSpec == ExtractInit /\ [][RepeatNext]_vars

(***************************************************************************)
(* The dashboard under React's Strict Mode: after the mount the effects are *)
(* cleaned up and set up once more, then the user submits queries.          *)
(***************************************************************************)
StrictComplete ==
    /\ \E result \in DashResults : ActionResume(result)
    /\ UNCHANGED <<apiKey, sideVars, now, dashVars, viewVars>>

StrictNext ==
    \/ LoadEffect \/ RemountEffects \/ RepeatType \/ RepeatSubmit
    \/ StrictComplete \/ DashReject \/ RepeatResume \/ Retry \/ Tick

StrictSpec == ExtractInit /\ [][StrictNext]_vars

(***************************************************************************)
(* Properties of analyzeFinancialDataAction.                             *)
(***************************************************************************)
HasReturned == pc = "returned" /\ outcome.kind = "return"
Envelope == outcome.envelope
Flags(iv, ar, dp) == [inputValidation |-> iv, apiResponse |-> ar, dataParsing |-> dp]

CredentialAbsent == apiKey = Undefined \/ apiKey = JStr("")
TrimmedLength(raw) == StrLen(Trim(raw))
TrimmedLengthInRange(raw) ==
    TrimmedLength(raw) >= MIN_QUERY_LENGTH /\ TrimmedLength(raw) <= MAX_QUERY_LENGTH
OnlyWhitespace(text) == \A i \in 1..Len(text) : text[i] = TWs

\* C1: with the credential absent, every invocation, whatever its input,
\* returns success=false with the configuration-error message and all three
\* coverage flags false, and no outbound call is issued.
C1_ConfigurationError ==
    CredentialAbsent =>
        /\ calls = 0
        /\ pc # "awaiting"
        /\ pc = "returned" =>
              /\ outcome.kind = "return"
              /\ Envelope.success = FALSE
              /\ "error" \in DOMAIN Envelope
              /\ Envelope.error = <<MsgConfigError>>
              /\ Envelope.testCoverage = Flags(FALSE, FALSE, FALSE)

\* the credential is absent and an invocation with a query of valid length
\* has returned
C1_Witness ==
    /\ HasReturned /\ CredentialAbsent
    /\ rawPrompt = Pad(0, MIN_QUERY_LENGTH, 0)

\* C2: with the credential present, validation passes (the request goes to
\* the completion endpoint) if and only if the TRIMMED length of the raw
\* string is in [3, 2000].
C2_TrimmedLengthDecides ==
    (pc # "idle" /\ ~CredentialAbsent) =>
        ((calls = 1) <=> TrimmedLengthInRange(rawPrompt))

\* C3 as stated: a validation failure returns success=false, the violated
\* constraints concatenated, and the flags inputValidation=false,
\* apiResponse=false, dataParsing=false.
C3_AsStated ==
    (HasReturned /\ ~CredentialAbsent /\ ~SafeParse(rawPrompt).success) =>
        /\ Envelope.success = FALSE
        /\ Envelope.testCoverage = Flags(FALSE, FALSE, FALSE)

\* C3 amended: a validation failure returns success=false, an error text made
\* of "Invalid input: " and the messages of the violated constraints joined
\* by "; ", and the flags inputValidation=TRUE, apiResponse=false,
\* dataParsing=false; no outbound call is made.
C3_ValidationFailure ==
    (HasReturned /\ ~CredentialAbsent /\ ~SafeParse(rawPrompt).success) =>
        /\ Envelope.success = FALSE
        /\ "error" \in DOMAIN Envelope
        /\ SafeParse(rawPrompt).errors # <<>>
        /\ \A i \in 1..Len(SafeParse(rawPrompt).errors) :
              SafeParse(rawPrompt).errors[i] \in {MsgTooShort, MsgTooLong}
        /\ Envelope.error = <<MsgInvalidInput>> \o Join(SafeParse(rawPrompt).errors, "; ")
        /\ Envelope.testCoverage = Flags(TRUE, FALSE, FALSE)
        /\ "data" \notin DOMAIN Envelope
        /\ calls = 0

\* a too-long query has been rejected
C3_Witness ==
    /\ HasReturned /\ ~CredentialAbsent
    /\ rawPrompt = Pad(0, MAX_QUERY_LENGTH + 1, 0)
    /\ Envelope.error = <<MsgInvalidInput, MsgTooLong>>

\* C4: for a valid query, a thrown upstream error or an empty or
\* whitespace-only completion text ends in a returned envelope (never a
\* throw) with success=false, the one fixed generic message, which does not
\* hold the cause, and the flags inputValidation=true, apiResponse=false,
\* dataParsing=false.
C4_UpstreamFailure ==
    /\ pc = "returned" => outcome.kind = "return"
    /\ (pc = "returned" /\ upstream.kind # "none"
          /\ (upstream.kind = "throw" \/ OnlyWhitespace(upstream.text))) =>
          /\ Envelope.success = FALSE
          /\ "error" \in DOMAIN Envelope
          /\ Envelope.error = <<MsgUnavailable>>
          /\ \A m \in ErrorMessages \cup {MsgEmptyResponse} :
                \A i \in 1..Len(Envelope.error) : Envelope.error[i] # m
          /\ Envelope.testCoverage = Flags(TRUE, FALSE, FALSE)
          /\ "data" \notin DOMAIN Envelope

\* the completion was whitespace only and the invocation has returned
C4_Witness ==
    /\ HasReturned
    /\ upstream = [kind |-> "text", text |-> <<TWs, TWs>>]
    /\ Envelope.success = FALSE

\* C5: an invocation with the credential present and a query that passes
\* validation issues exactly one outbound request, whatever the outcome; an
\* invocation failing the credential check or validation issues none.
C5_OneOutboundCall ==
    /\ pc = "awaiting" => calls = 1
    /\ pc = "returned" =>
          calls = IF ~CredentialAbsent /\ SafeParse(rawPrompt).success THEN 1 ELSE 0

\* an upstream failure has been turned into an envelope after one request
C5_Witness ==
    /\ HasReturned /\ upstream.kind = "throw" /\ calls = 1

\* C6 as stated: whenever the upstream returns non-empty text, the envelope
\* is success=true with data equal to that text.
C6_AsStated ==
    (HasReturned /\ upstream.kind = "text" /\ upstream.text # <<>>) =>
        /\ Envelope.success = TRUE
        /\ Envelope.data = upstream.text

\* C6 amended: whenever the upstream returns text that is neither empty nor
\* whitespace-only, the envelope is success=true with data equal to that text
\* unmodified, inputValidation and apiResponse true, whatever the embedded
\* payload is.
C6_RawTextReturned ==
    (HasReturned /\ upstream.kind = "text" /\ ~OnlyWhitespace(upstream.text)) =>
        /\ Envelope.success = TRUE
        /\ "data" \in DOMAIN Envelope
        /\ Envelope.data = upstream.text
        /\ Envelope.testCoverage.inputValidation = TRUE
        /\ Envelope.testCoverage.apiResponse = TRUE

\* the text held <data>{not json}</data> and came back whole, dataParsing false
C6_Witness ==
    /\ HasReturned
    /\ upstream = [kind |-> "text", text |-> <<TProse, TWs, TOpen, TJunk, TClose, TWs>>]
    /\ Envelope.success = TRUE
    /\ Envelope.data = <<TProse, TWs, TOpen, TJunk, TClose, TWs>>
    /\ Envelope.testCoverage.dataParsing = FALSE

\* the content of the <data>...</data> block the match finds: from the
\* leftmost <data> to the first </data> after it
HasBlock(text, i, j) ==
    /\ i < j /\ text[i] = TOpen /\ text[j] = TClose
    /\ \A k \in 1..(i - 1) : text[k] # TOpen
    /\ \A k \in (i + 1)..(j - 1) : text[k] # TClose

IsMarkerOrWs(tok) == tok \in {TFenceJson, TFence, TWs}

\* the block's content is, code fences and surrounding whitespace apart, one
\* JSON document
BlockDocs(text) ==
    {text[k].doc : k \in {k \in 1..Len(text) :
        /\ text[k].k = "json"
        /\ \E i \in 1..(k - 1), j \in (k + 1)..Len(text) :
              /\ HasBlock(text, i, j)
              /\ \A m \in ((i + 1)..(j - 1)) \ {k} : IsMarkerOrWs(text[m])}}

\* the chart schema as the claim words it
SatisfiesChartSchema(d) ==
    /\ d.t = "object"
    /\ {"type", "items"} \subseteq DOMAIN d.o
    /\ d.o.type \in {JStr("trend"), JStr("sector"), JStr("heatmap")}
    /\ d.o.items.t = "array"
    /\ d.o.items.a # <<>>
    /\ \A n \in 1..Len(d.o.items.a) :
          LET item == d.o.items.a[n]
          IN  /\ item.t = "object"
              /\ {"name", "value"} \subseteq DOMAIN item.o
              /\ item.o.name.t = "string"
              /\ item.o.value.t = "number"
              /\ "inf" \notin DOMAIN item.o.value

\* C7: on the success path inputValidation and apiResponse are true, and
\* dataParsing is true exactly when the text holds a <data>...</data> block
\* (the one the match finds) whose content, code fences stripped, parses as
\* JSON and satisfies the chart schema; without a block it is false.
C7_DataParsingFlag ==
    (HasReturned /\ Envelope.success) =>
        /\ Envelope.testCoverage.inputValidation = TRUE
        /\ Envelope.testCoverage.apiResponse = TRUE
        /\ Envelope.testCoverage.dataParsing =
              (\E d \in BlockDocs(Envelope.data) : SatisfiesChartSchema(d))

\* a fenced, schema-valid payload has been accepted
C7_Witness ==
    /\ HasReturned /\ Envelope.success
    /\ Envelope.testCoverage.dataParsing = TRUE
    /\ \E i \in 1..Len(Envelope.data) : Envelope.data[i] = TFenceJson

\* C8: every returned envelope has exactly one of data and error:
\* success=true with a non-empty data string and no error, or success=false
\* with a non-empty error string and no data.
C8_DataXorError ==
    pc = "returned" =>
        /\ outcome.kind = "return"
        /\ Envelope.success =>
              /\ "data" \in DOMAIN Envelope /\ Envelope.data # <<>>
              /\ "error" \notin DOMAIN Envelope
        /\ ~Envelope.success =>
              /\ "error" \in DOMAIN Envelope /\ Envelope.error # <<>>
              /\ \A i \in 1..Len(Envelope.error) : Envelope.error[i] # ""
              /\ "data" \notin DOMAIN Envelope

\* an upstream error has been returned as an error envelope without data
C8_Witness ==
    /\ HasReturned /\ upstream.kind = "throw"
    /\ "error" \in DOMAIN Envelope /\ "data" \notin DOMAIN Envelope

(***************************************************************************)
(* Properties of the dashboard's history.                                   *)
(***************************************************************************)
\* C9: the history never holds more than 50 items; it is, newest first, the
\* items appended so far, cut to the 50 most recent (so 60 appends leave the
\* 50 most recent, the oldest 10 dropped from the tail).
C9_HistoryCapped ==
    /\ Len(history) <= MAX_HISTORY_ITEMS
    /\ Len(history) = IF Len(appended) < MAX_HISTORY_ITEMS THEN Len(appended)
                      ELSE MAX_HISTORY_ITEMS
    /\ \A i \in 1..Len(history) : history[i] = appended[Len(appended) + 1 - i]

\* the session has appended more items than the history holds, and the
\* history runs from the newest item down to the 50th newest
C9_Witness ==
    /\ Len(appended) = MaxAppends
    /\ Len(appended) > MAX_HISTORY_ITEMS
    /\ Len(history) = MAX_HISTORY_ITEMS
    /\ history[1] = appended[Len(appended)]
    /\ history[MAX_HISTORY_ITEMS] = appended[Len(appended) + 1 - MAX_HISTORY_ITEMS]
    /\ history[1] # history[MAX_HISTORY_ITEMS]

\* C10: after every append the value stored under the storage key is the
\* JSON serialization of the in-memory history as it is after that append.
C10_PersistedAfterAppend ==
    appended # <<>> =>
        storage = StoredItem(JsonStringify(ArrayValue(history)))

(***************************************************************************)
(* Properties of validateChartData, on the items handleSearch creates.      *)
(***************************************************************************)
\* the document of the first <data> block of a history item's response
ItemDocs(item) == BlockDocs(item.response)

HasChart(item) == item.data # Undefined

\* C14: validateChartData returns a payload only when the parsed object's
\* type is one of "trend", "sector", "heatmap": every created item that has
\* chart data has one of these three types.
C14_OnlyEnumeratedTypes ==
    \A i \in 1..Len(appended) :
        HasChart(appended[i]) =>
            appended[i].data.o.type \in {JStr(ty) : ty \in ChartTypes}

\* an item with a string name and a finite numeric value
WellShapedItem(item) ==
    /\ item.t = "object"
    /\ {"name", "value"} \subseteq DOMAIN item.o
    /\ item.o.name.t = "string"
    /\ item.o.value.t = "number" /\ "inf" \notin DOMAIN item.o.value

\* a payload of an enumerated type with a non-empty list of items
HasItemList(d) ==
    /\ d.t = "object"
    /\ {"type", "items"} \subseteq DOMAIN d.o
    /\ d.o.type \in {JStr(ty) : ty \in ChartTypes}
    /\ d.o.items.t = "array" /\ d.o.items.a # <<>>

\* C15: for a parsed payload with a list of items, the chart data of the
\* created item holds exactly the items with a string name and a finite
\* numeric value, in their order; when none is left the item has no chart.
C15_ExactlyWellShapedItems ==
    \A i \in 1..Len(appended) : \A d \in ItemDocs(appended[i]) :
        HasItemList(d) =>
            LET kept == SelectSeq(d.o.items.a, WellShapedItem)
            IN  IF kept = <<>> THEN ~HasChart(appended[i])
                ELSE /\ HasChart(appended[i])
                     /\ appended[i].data.o.items.a = kept

(***************************************************************************)
(* Properties of the dashboard's storage.                                   *)
(***************************************************************************)
\* two histories hold the same items, as JSON writes them
SameItems(h1, h2) ==
    /\ Len(h1) = Len(h2)
    /\ \A i \in 1..Len(h1) : StringifyItem(h1[i]) = StringifyItem(h2[i])

\* C11: round trip across sessions: a fresh dashboard mounted on the
\* storage as the session has left it loads a history equal to the
\* in-memory history of the session.
C11_RoundTrip ==
    effectsRun => SameItems(LoadedValue(storage, <<>>), history)

\* the stored text is the JSON of an array of history items
IsHistoryArray(stored) ==
    /\ stored.kind = "item" /\ stored.text.kind = "json"
    /\ \A i \in 1..Len(stored.text.value) :
          {"id", "query", "response", "timestamp"} \subseteq DOMAIN stored.text.value[i]

\* C12: loading never crashes and never leaves a non-sequence: whatever the
\* storage key holds, rendering never throws, and when it holds no array of
\* history items the history after the load is the empty sequence.
C12_LoadNeverCrashes ==
    /\ ~renderError
    /\ (effectsRun /\ appended = <<>> /\ ~IsHistoryArray(storage)) => history = <<>>

\* C20: in every reachable state, the one right after the startup load
\* included, the history holds at most 50 items.
C20_AtMostFiftyAlways ==
    ~renderError => Len(history) <= MAX_HISTORY_ITEMS

(***************************************************************************)
(* Properties of the dashboard's handlers.                                  *)
(***************************************************************************)
\* C13: at most one call of the action is in flight: it is in flight exactly
\* while loading is set, and while it is, it is the call made for
\* activeQuery; a submission made meanwhile starts nothing and changes
\* nothing, and nothing is started when the call settles.
C13_SingleFlight ==
    /\ inFlight \in {0, 1}
    /\ loading <=> inFlight = 1
    /\ loading => (pc # "idle" /\ rawPrompt = activeQuery)
    /\ ~loading => pc = "idle"

\* a call is pending and the input box holds a query a submission would send
C13_Witness ==
    /\ loading /\ pc = "awaiting" /\ inFlight = 1
    /\ Trim(query) # <<>>

\* two characters are the same letter, case apart
SameLetter(x, y) == x = y \/ {x, y} = {"a", "A"} \/ {x, y} = {"n", "N"}

\* q contains term, case apart
ContainsIgnoringCase(q, term) ==
    LET a == Expand(q)
        b == Expand(term)
    IN  \E k \in 0..(Len(a) - Len(b)) :
            \A j \in 1..Len(b) : SameLetter(a[k + j], b[j])

\* C16: the sidebar shows exactly the history items whose query contains the
\* debounced search term, case apart, in the order of the history; the
\* empty term shows the whole history; a step that changes the search term
\* or its debounced value changes neither the history nor the storage.
C16_SidebarSearch ==
    /\ [](~renderError =>
            /\ filteredHistory(history, debouncedSearch)
                 = SelectSeq(history,
                             LAMBDA item : ContainsIgnoringCase(item.query, debouncedSearch))
            /\ debouncedSearch = <<>> =>
                 filteredHistory(history, debouncedSearch) = history)
    /\ [][(~renderError /\ effectsRun'
            /\ (sidebarSearch' # sidebarSearch \/ debouncedSearch' # debouncedSearch))
           => (history' = history /\ storage' = storage)]_vars

\* an upper-case term selects some items of the history and leaves out others
C16_Witness ==
    /\ ~renderError /\ effectsRun
    /\ debouncedSearch = FromChars(<<"A", "N">>)
    /\ Len(filteredHistory(history, debouncedSearch)) >= 1
    /\ Len(filteredHistory(history, debouncedSearch)) < Len(history)
    /\ \E i \in 1..Len(history) : history[i].query = QueryNan

IsPrefix(a, b) == Len(a) <= Len(b) /\ SubSeq(b, 1, Len(a)) = a

\* handleSearch takes up the settled call
ResumeStep == pc = "returned" /\ pc' = "idle"

\* the call threw or returned success=false
CallFailed == outcome.kind = "throw" \/ ~Envelope.success

\* C17: when the action returns success=false or the call throws, the
\* history, the storage and the displayed analysis stay as they are and the
\* error is set; and every step leaves the history as it is, empties it
\* (clear), loads it at startup, or, on a successful completion, puts one
\* item in front of a prefix of it: no item of the history is ever modified.
C17_OnlySuccessCreates ==
    [][\/ renderError \/ renderError'
       \/ /\ (ResumeStep /\ CallFailed) =>
                /\ history' = history
                /\ storage' = storage
                /\ currentAnalysis' = currentAnalysis
                /\ error' # NoError
          /\ \/ history' = history
             \/ history' = <<>>
             \/ ~effectsRun /\ effectsRun'
             \/ /\ ResumeStep /\ ~CallFailed
                /\ Len(history') >= 1
                /\ IsPrefix(Tail(history'), history)]_vars

\* a failed submission has set the error and left a non-empty history and
\* the displayed analysis in place
C17_Witness ==
    /\ ~renderError /\ effectsRun
    /\ error # NoError
    /\ Len(history) > 0 /\ currentAnalysis # NoAnalysis
    /\ currentAnalysis = history[1]

\* a confirmed clearHistory: the non-empty history becomes empty
ClearStep ==
    /\ ~renderError /\ ~renderError' /\ effectsRun /\ effectsRun'
    /\ Len(history) > 0 /\ history' = <<>>

EmptyArrayStored == StoredItem(JsonText(<<>>))

\* C18 as stated: a confirmed clear leaves the history empty, the storage
\* holding the empty sequence and no analysis displayed.
C18_AsStated ==
    [][ClearStep => (storage' = EmptyArrayStored /\ currentAnalysis' = NoAnalysis)]_vars

\* C18 amended: a confirmed clear leaves the history empty and no analysis
\* displayed, and the storage holding the empty sequence, or, when the write
\* is refused, what it held before; a declined clear changes nothing.
C18_ClearEmpties ==
    [][ClearStep =>
          /\ currentAnalysis' = NoAnalysis
          /\ storage' = EmptyArrayStored \/ storage' = storage
          /\ error' = error /\ loading' = loading /\ appended' = appended]_vars

\* the history of the session has been cleared and the empty sequence stored
C18_Witness ==
    /\ ~renderError /\ effectsRun
    /\ appended # <<>> /\ history = <<>>
    /\ storage = EmptyArrayStored /\ currentAnalysis = NoAnalysis

Min(a, b) == IF a < b THEN a ELSE b

\* handleSearch takes up a successful envelope while mounted
SuccessResumeStep ==
    /\ ResumeStep /\ outcome.kind = "return" /\ Envelope.success
    /\ mountedRef

\* C19: whether or not the storage takes the write, an append puts the new
\* item in front of the in-memory history and displays it, and a clear
\* empties the in-memory history; no error is raised by the handler.
C19_WriteFailureCaught ==
    [][/\ (~renderError /\ SuccessResumeStep) =>
            /\ Len(appended') = Len(appended) + 1
            /\ history' = <<appended'[Len(appended')]>>
                           \o SubSeq(history, 1,
                                     Min(Len(history), MAX_HISTORY_ITEMS - 1))
            /\ currentAnalysis' = appended'[Len(appended')]
            /\ error' = NoError /\ loading' = FALSE
       /\ ClearStep => (currentAnalysis' = NoAnalysis /\ error' = NoError)]_vars

\* an item was appended in memory while the storage, empty at startup,
\* refused the write
C19_Witness ==
    /\ ~renderError /\ effectsRun
    /\ storage = AbsentItem
    /\ appended # <<>> /\ Len(history) >= 1
    /\ history[1] = appended[Len(appended)]

\* C24: the value the sidebar's filter uses changes only to the value the
\* search box holds, and only when the box has held it unchanged for at least
\* 250 ms (the timer's delay is 300 ms); typing restarts the timer and does
\* not itself change the filter's value, so of keystrokes that follow each
\* other faster than the delay only the last one reaches the filter.
C24_Debounced ==
    [][(effectsRun /\ effectsRun') =>
        /\ sidebarSearch' # sidebarSearch =>
              /\ debouncedSearch' = debouncedSearch
              /\ debounceTimer'.kind = "timeout"
              /\ debounceTimer'.value = sidebarSearch'
              /\ debounceTimer'.setAt = now'
        /\ debouncedSearch' # debouncedSearch =>
              /\ sidebarSearch' = sidebarSearch
              /\ debouncedSearch' = sidebarSearch
              /\ debounceTimer.kind = "timeout"
              /\ debounceTimer.value = sidebarSearch
              /\ now - debounceTimer.setAt >= 250]_vars

\* two keystrokes 50 ms apart; the filter has taken the second value, and the
\* first never had the time to reach it
C24_Witness ==
    /\ effectsRun /\ ~renderError
    /\ now = 50 + DEBOUNCE_DELAY
    /\ sidebarSearch = FromChars(<<"A", "N">>)
    /\ debouncedSearch = sidebarSearch
    /\ debounceTimer = NoTimer

\* C21: the items of the history have pairwise distinct ids.
C21_AsStated ==
    ~renderError =>
        \A i, j \in 1..Len(history) : i # j => history[i].id # history[j].id

C25_AsStated ==
    (effectsRun /\ ~renderError /\ inFlight = 0) => ~loading

\* C26: the analysis on display is none or one of the items of the history.
C26_CurrentInHistory ==
    ~renderError =>
        \/ currentAnalysis = NoAnalysis
        \/ \E i \in 1..Len(history) : history[i] = currentAnalysis

\* an older item was picked in the sidebar after a submission of this session
C26_Witness ==
    /\ ~renderError /\ effectsRun
    /\ appended # <<>>
    /\ Len(history) >= 2
    /\ currentAnalysis # NoAnalysis
    /\ currentAnalysis # history[1]

\* C23: healthCheck answers "operational" exactly when GEMINI_API_KEY is set
\* to a non-empty string and "degraded" otherwise, with the time of the call,
\* and a call of healthCheck sends no request to the completion endpoint and
\* leaves an invocation of the action where it was.
C23_HealthCheck ==
    /\ [](health # NoHealth =>
            /\ health.status \in {"operational", "degraded"}
            /\ health.status = "operational" <=> ~CredentialAbsent
            /\ health.timestamp <= now)
    /\ [][health' # health =>
            /\ health'.timestamp = now
            /\ calls' = calls /\ pc' = pc /\ upstream' = upstream
            /\ outcome' = outcome]_vars

\* healthCheck answered "degraded" for an empty key while an invocation of
\* the action was under way
C23_Witness ==
    /\ apiKey = JStr("")
    /\ health # NoHealth
    /\ health.status = "degraded"
    /\ pc = "returned"

\* the envelope the action returned reports a valid embedded chart
ReturnedWithChart ==
    /\ HasReturned
    /\ Envelope.success
    /\ Envelope.testCoverage.dataParsing

\* the payload holds the type and the items of the document, in their order
SamePayload(payload, d) ==
    /\ payload.t = "object"
    /\ d.t = "object"
    /\ payload.o.type = d.o.type
    /\ payload.o.items = d.o.items

\* C27: whenever the action reports dataParsing = true for a response text,
\* validateChartData yields for that text a payload with the type and the
\* items of the embedded document, in their order; and the history item
\* handleSearch creates from such an envelope has this payload as its chart
\* data.
C27_ClientAtLeastAsPermissive ==
    /\ [](ReturnedWithChart =>
            LET payload == validateChartData(Envelope.data)
            IN  /\ payload # Null
                /\ BlockDocs(Envelope.data) # {}
                /\ \A d \in BlockDocs(Envelope.data) : SamePayload(payload, d))
    /\ [][(ReturnedWithChart /\ pc' = "idle" /\ mountedRef) =>
            /\ Len(appended') = Len(appended) + 1
            /\ HasChart(appended'[Len(appended')])
            /\ appended'[Len(appended')].response = Envelope.data
            /\ \A d \in BlockDocs(Envelope.data) :
                  SamePayload(appended'[Len(appended')].data, d)]_vars

\* an item with two chart items was created from an envelope with
\* dataParsing = true
C27_Witness ==
    /\ Len(appended) = 1
    /\ ChartDataValid(appended[1].response)
    /\ HasChart(appended[1])
    /\ Len(appended[1].data.o.items.a) = 2

\* the text holds more than one <data> tag
SeveralBlocks(text) == Cardinality({i \in 1..Len(text) : text[i] = TOpen}) >= 2

C28_WitnessFirstValid ==
    /\ Len(appended) = 1
    /\ appended[1].response = Block(GoodBody) \o <<TProse>> \o Block(<<TJunk>>)
    /\ HasChart(appended[1])

\* the window of the duplicate check, in ms
QA_DEDUP_WINDOW == 2000

\* C29: an error handed to trackQaError while the boundary is mounted is
\* either at the head of the log, or it has the message of the head and came
\* within two seconds of it; the log holds at most 10 entries, newest first.
C29_AsStated ==
    /\ Len(qaErrors) <= 10
    /\ \A i \in 1..(Len(qaErrors) - 1) :
          qaErrors[i].timestamp >= qaErrors[i + 1].timestamp
    /\ (qaIncoming # NoQaError /\ qaMountedRef) =>
          /\ qaErrors # <<>>
          /\ \/ qaErrors[1] = qaIncoming
             \/ /\ qaErrors[1].message = qaIncoming.message
                /\ qaIncoming.timestamp - qaErrors[1].timestamp <= QA_DEDUP_WINDOW

\* the last posted message that JSON.stringify can serialize, as text
RECURSIVE LastSerialized(_)
LastSerialized(msgs) ==
    IF msgs = <<>> THEN <<>>
    ELSE IF StringifyMessage(msgs[Len(msgs)]).ok
    THEN StringifyMessage(msgs[Len(msgs)]).text
    ELSE LastSerialized(SubSeq(msgs, 1, Len(msgs) - 1))

\* C30 as stated: no two messages posted one after the other are the same.
C30_AsStated ==
    \A i \in 1..(Len(posted) - 1) : posted[i] # posted[i + 1]

\* C30: the cache holds the text of the last posted message that
\* JSON.stringify can serialize.  A message that can be serialized is posted
\* exactly when its text differs from the cache, so two messages posted one
\* after the other are the same only if they cannot be serialized; such a
\* message is always posted.  A VISUAL_EDIT_MODE request that changes the
\* mode is acknowledged with VISUAL_EDIT_MODE_ACK and the same active value
\* unless the text of the acknowledgement is the cached one.
C30_DedupOfSerializable ==
    /\ [](/\ orchidsLastMsg = LastSerialized(posted)
          /\ \A i \in 1..(Len(posted) - 1) :
                posted[i] = posted[i + 1] => ~StringifyMessage(posted[i]).ok)
    /\ [][posted' # posted =>
            /\ Len(posted') = Len(posted) + 1
            /\ SubSeq(posted', 1, Len(posted)) = posted
            /\ LET data == posted'[Len(posted')]
               IN  IF StringifyMessage(data).ok
                   THEN /\ StringifyMessage(data).text # orchidsLastMsg
                        /\ orchidsLastMsg' = StringifyMessage(data).text
                   ELSE orchidsLastMsg' = orchidsLastMsg]_vars
    /\ [][(hoverMounted /\ hoverMounted' /\ isVisualEditMode' # isVisualEditMode) =>
            LET ack == AckMessage(isVisualEditMode')
            IN  IF StringifyMessage(ack).ok
                      /\ StringifyMessage(ack).text = orchidsLastMsg
                THEN posted' = posted
                ELSE posted' = Append(posted, ack)]_vars

\* two different acknowledgements were posted one after the other and the
\* cache holds the text of the second
C30_Witness ==
    /\ hoverMounted
    /\ Len(posted) = 2
    /\ posted[1] = AckMessage(JBool(TRUE))
    /\ posted[2] = AckMessage(JBool(FALSE))
    /\ isVisualEditMode = JBool(FALSE)
    /\ orchidsLastMsg = StringifyMessage(AckMessage(JBool(FALSE))).text
====
